---------------------------- MODULE Spec2Model ----------------------------
(***************************************************************************)
(* dupless (src/main.cpp): scan a directory tree, group the files by the   *)
(* SHA-256 digest of their content, list every group of more than one      *)
(* file, and on a single confirmation remove every member of every group   *)
(* but its first one.                                                      *)
(*                                                                         *)
(* The program is one thread.  A step of the model is one iteration of one *)
(* of its loops or one of its I/O calls; the outcome of every call into    *)
(* the filesystem or the input stream is drawn from the outcomes the call  *)
(* can have.                                                               *)
(***************************************************************************)
EXTENDS Integers, Sequences, FiniteSets, TLC

\* ------------------------------------------------------------------ bounds
NumEntries  == 3   \* entries the recursive walk can yield; path p is the
                   \* p-th entry it yields (the program never compares
                   \* two paths, so which name comes first is immaterial)
NumContents == 2   \* distinct file contents
MaxInput    == 1   \* characters of the line typed at the prompt
MaxLine     == 3   \* the same, in the specification of longer lines

Paths    == 1..NumEntries
Contents == 1..NumContents

\* What an entry of the tree is.  "symlink" is a symbolic link whose target
\* is a regular file; "directory" and "other" (a FIFO, a dangling link, a
\* link to a directory) are never regular files, followed or not.
Kinds == {"regular", "symlink", "directory", "other"}

\* What the walk can find at a path: a file (or a link to one) with its
\* content, or something with no content to read.
NoContent == 0
Entries ==
    [kind : {"regular", "symlink"}, content : Contents]
      \cup [kind : {"directory", "other"}, content : {NoContent}]

\* Characters of the line typed at the prompt, and those operator>> treats as
\* separators.
\* The line is given without its terminator.
Chars      == {"y", "Y", "n", " "}
Whitespace == {" ", "\t", "\n"}

RECURSIVE SeqsUpTo(_)
SeqsUpTo(n) ==
    IF n = 0 THEN {<<>>}
    ELSE LET shorter == SeqsUpTo(n - 1)
         IN  shorter \cup {Append(s, c) : s \in {t \in shorter : Len(t) = n - 1}, c \in Chars}

Inputs == SeqsUpTo(MaxInput)
Lines  == SeqsUpTo(MaxLine)

Range(s) == {s[k] : k \in 1..Len(s)}

VARIABLES
    argc,               \* main's argc
    rootStatus,         \* what argv[1] names: "missing", "file" or "dir"
    statReadable,       \* whether the status of argv[1] can be read at all
    kind,               \* what each entry the walk yielded is ("unseen" before)
    content,            \* the bytes a read of each entry yields
    pc,                 \* position in the program
    exitCode,           \* "running", "exit0", "exit1", "abort"
    discovered,         \* paths the walk has yielded, in discovery order
    hashFailed,         \* paths whose calculateFileHash returned ""
    hashToPaths,        \* std::map: digest -> vector of paths
    reported,           \* map keys the report loop has been through
    foundDuplicates,
    filesToDelete,
    totalDuplicateSize,
    sizeResult,         \* what fs::file_size gave for each nominated path, in
                        \* the order of filesToDelete (-1: it threw)
    output,             \* the kinds of message printed so far
    keepers,            \* keepers named in "--- Duplicate Group" lines, in order
    stdin,              \* the characters standard input held at the prompt
    response,
    attempted,          \* paths fs::remove was called on, in order
    removed,            \* paths fs::remove unlinked
    deleteCount,
    finalTally          \* << n >> once "n files successfully deleted" is printed

vars == <<argc, rootStatus, statReadable, kind, content, pc, exitCode, discovered, hashFailed,
          hashToPaths, reported, foundDuplicates, filesToDelete,
          totalDuplicateSize, sizeResult, output, keepers, stdin, response,
          attempted, removed, deleteCount, finalTally>>

scanVars   == <<discovered, hashFailed, hashToPaths>>
reportVars == <<reported, foundDuplicates, filesToDelete, totalDuplicateSize,
                sizeResult, keepers>>
deleteVars == <<stdin, response, attempted, removed, deleteCount, finalTally>>
envVars    == <<argc, rootStatus, statReadable, kind, content>>

\* ------------------------------------------------------------ pure helpers

\* SHA256::getHash over a file's bytes: equal contents give equal digests and
\* different contents different ones.  The map orders its keys by digest, which
\* is not the order of the contents.
SHA256Hash(c) == NumContents + 1 - c

\* return "": the sentinel, which is no digest.
EmptyHash == 0

\* directory_entry::is_regular_file(): the status it tests follows symbolic
\* links, so a link to a regular file answers true.
IsRegularFile(k) == k \in {"regular", "symlink"}

\* calculateFileHash: "" when the file does not open or the stream went bad.
calculateFileHash(c, io) ==
    IF io = "open_fail" THEN EmptyHash
    ELSE IF io = "read_bad" THEN EmptyHash
    ELSE SHA256Hash(c)

HashOutcomes == {"ok", "open_fail", "read_bad"}

\* Variant: the test of the sentinel is missing.
HashAccepted_Always(hash) == TRUE

\* if (!hash.empty())
HashAccepted(hash) == hash # EmptyHash

\* Variant: the path is inserted at the front of the vector.
PushBack_Front(map, hash, p) ==
    IF hash \in DOMAIN map
    THEN [map EXCEPT ![hash] = <<p>> \o @]
    ELSE map @@ (hash :> <<p>>)

\* hashToPaths[hash].push_back(filePath)
PushBack(map, hash, p) ==
    IF hash \in DOMAIN map
    THEN [map EXCEPT ![hash] = Append(@, p)]
    ELSE map @@ (hash :> <<p>>)

\* Variant: the test is paths.size() >= 1.
IsDuplicateGroup_NonEmpty(paths) == Len(paths) >= 1

\* if (paths.size() > 1)
IsDuplicateGroup(paths) == Len(paths) > 1

\* Variant: the loop starts at index 0.
Duplicates_FromZero(paths) == paths

\* for (size_t i = 1; i < paths.size(); ++i): every member but paths[0]
Duplicates(paths) == SubSeq(paths, 2, Len(paths))

\* std::cin >> response: skip leading whitespace, then take characters up to
\* the next whitespace or the end of input (nothing left: response is empty).
RECURSIVE SkipWs(_)
SkipWs(s) ==
    IF s = <<>> THEN s
    ELSE IF Head(s) \in Whitespace THEN SkipWs(Tail(s)) ELSE s

RECURSIVE TakeToken(_)
TakeToken(s) ==
    IF s = <<>> \/ Head(s) \in Whitespace THEN <<>>
    ELSE <<Head(s)>> \o TakeToken(Tail(s))

ExtractToken(s) == TakeToken(SkipWs(s))

\* response.size() == 1 && (response[0] == 'Y' || response[0] == 'y')
Confirmed(r) == Len(r) = 1 /\ (r[1] = "Y" \/ r[1] = "y")

\* fs::remove: true (unlinked), false (the path did not exist), or it throws.
RemoveOutcomes == {"removed", "absent", "error"}

\* fs::file_size: the length of the file's bytes (content c stands for a byte
\* string of length c), or it throws (-1 here).
SizeFailed == 0 - 1
FileSize(c, io) == IF io = "stat_fail" THEN SizeFailed ELSE c

SizeOutcomes == {"ok", "stat_fail"}

\* Variant: the sum is taken whether or not file_size returned.
AddSize_Unchecked(total, sz) == total + sz

\* totalDuplicateSize += size, reached only when file_size returned.
AddSize(total, sz) == IF sz = SizeFailed THEN total ELSE total + sz

\* ------------------------------------------------------------------- init
Init ==
    /\ argc \in 1..3
    /\ rootStatus \in {"missing", "file", "dir"}
    /\ statReadable \in BOOLEAN
    /\ kind = [p \in Paths |-> "unseen"]
    /\ content = [p \in Paths |-> NoContent]
    /\ pc = "main"
    /\ exitCode = "running"
    /\ discovered = <<>>
    /\ hashFailed = {}
    /\ hashToPaths = <<>>
    /\ reported = {}
    /\ foundDuplicates = FALSE
    /\ filesToDelete = <<>>
    /\ totalDuplicateSize = 0
    /\ sizeResult = <<>>
    /\ output = {}
    /\ keepers = <<>>
    /\ stdin = <<>>
    /\ response = <<>>
    /\ attempted = <<>>
    /\ removed = {}
    /\ deleteCount = 0
    /\ finalTally = <<>>


\* ---------------------------------------------------------------- actions

\* fs::exists(rootDir): true or false from the status of the path; when the
\* status cannot be read (a directory on the way denies search permission, the
\* name is too long, the links loop) it throws filesystem_error.
Exists(status, readable) ==
    IF ~readable THEN "throws"
    ELSE IF status = "missing" THEN "false" ELSE "true"

\* fs::is_directory(rootDir)
IsDirectory(status) == status = "dir"

\* main, up to the call of findAndRemoveDuplicates.  Nothing in main catches
\* what fs::exists throws, so that run ends in std::terminate.
Main ==
    /\ pc = "main"
    /\ IF argc # 2
       THEN /\ output' = output \cup {"usage"}
            /\ exitCode' = "exit1"
            /\ pc' = "done"
       ELSE IF Exists(rootStatus, statReadable) = "throws"
       THEN /\ output' = output
            /\ exitCode' = "abort"
            /\ pc' = "done"
       ELSE IF Exists(rootStatus, statReadable) = "false"
       THEN /\ output' = output \cup {"not_exist"}
            /\ exitCode' = "exit1"
            /\ pc' = "done"
       ELSE IF ~IsDirectory(rootStatus)
       THEN /\ output' = output \cup {"not_directory"}
            /\ exitCode' = "exit1"
            /\ pc' = "done"
       ELSE /\ output' = output \cup {"starting_scan"}
            /\ exitCode' = exitCode
            /\ pc' = "scan"
    /\ UNCHANGED <<envVars, scanVars, reportVars, deleteVars>>

\* One iteration of the walk: the iterator yields the next entry, which is
\* whatever the tree holds there; a regular file is hashed and grouped.
ScanEntry(p, e) ==
    /\ pc = "scan"
    /\ p = Len(discovered) + 1
    /\ discovered' = Append(discovered, p)
    /\ kind' = [kind EXCEPT ![p] = e.kind]
    /\ content' = [content EXCEPT ![p] = e.content]
    /\ IF IsRegularFile(e.kind)
       THEN \E io \in HashOutcomes :
              LET hash == calculateFileHash(e.content, io) IN
              /\ output' = output \cup {"progress"}
              /\ hashFailed' = IF hash = EmptyHash THEN hashFailed \cup {p} ELSE hashFailed
              /\ hashToPaths' = IF HashAccepted(hash)
                                THEN PushBack(hashToPaths, hash, p)
                                ELSE hashToPaths
       ELSE UNCHANGED <<output, hashFailed, hashToPaths>>
    /\ UNCHANGED <<argc, rootStatus, statReadable, pc, exitCode, reportVars,
                   deleteVars>>

\* Variant: the catch reports the error and falls through to the report phase.
ScanError_FallThrough ==
    /\ pc = "scan"
    /\ output' = output \cup {"scan_error"}
    /\ pc' = "report"
    /\ UNCHANGED <<envVars, exitCode, scanVars, reportVars, deleteVars>>

\* The iterator (its construction, an increment, or the status query of an
\* entry) throws filesystem_error: the catch reports it and returns; main
\* returns 0.
ScanError ==
    /\ pc = "scan"
    /\ output' = output \cup {"scan_error"}
    /\ pc' = "done"
    /\ exitCode' = "exit0"
    /\ UNCHANGED <<envVars, scanVars, reportVars, deleteVars>>

\* The walk reaches the end of the tree, which holds at most NumEntries
\* entries.
ScanEnd ==
    /\ pc = "scan"
    /\ output' = output \cup {"scan_complete"}
    /\ pc' = "report"
    /\ UNCHANGED <<envVars, exitCode, scanVars, reportVars, deleteVars>>

RECURSIVE SumSizes(_, _)
SumSizes(total, szs) ==
    IF szs = <<>> THEN total
    ELSE SumSizes(AddSize(total, Head(szs)), Tail(szs))

Min(S) == CHOOSE x \in S : \A y \in S : x <= y

\* One iteration of the loop over the map, in key order: a group of more than
\* one path names its first path as keeper and nominates the others, each with
\* its size query.
ReportGroup ==
    /\ pc = "report"
    /\ DOMAIN hashToPaths \ reported # {}
    /\ LET hash  == Min(DOMAIN hashToPaths \ reported)
           paths == hashToPaths[hash] IN
       /\ reported' = reported \cup {hash}
       /\ IF IsDuplicateGroup(paths)
          THEN \E io \in [1..Len(Duplicates(paths)) -> SizeOutcomes] :
                 LET dups == Duplicates(paths)
                     szs  == [k \in 1..Len(dups) |-> FileSize(content[dups[k]], io[k])] IN
                 /\ foundDuplicates' = TRUE
                 /\ keepers' = Append(keepers, paths[1])
                 /\ filesToDelete' = filesToDelete \o Duplicates(paths)
                 /\ sizeResult' = sizeResult \o szs
                 /\ totalDuplicateSize' = SumSizes(totalDuplicateSize, szs)
                 /\ output' = output \cup {"group"}
                              \cup (IF \E k \in DOMAIN szs : szs[k] = SizeFailed
                                    THEN {"size_warning"} ELSE {})
          ELSE UNCHANGED <<foundDuplicates, keepers, filesToDelete, sizeResult,
                           totalDuplicateSize, output>>
    /\ UNCHANGED <<envVars, pc, exitCode, scanVars, deleteVars>>

\* After the loop: no group found, say so and return; else print the summary
\* and the question.
ReportEnd ==
    /\ pc = "report"
    /\ DOMAIN hashToPaths \subseteq reported
    /\ IF ~foundDuplicates
       THEN /\ output' = output \cup {"no_duplicates"}
            /\ pc' = "done"
            /\ exitCode' = "exit0"
       ELSE /\ output' = output \cup {"summary"}
            /\ pc' = "prompt"
            /\ exitCode' = exitCode
    /\ UNCHANGED <<envVars, scanVars, reportVars, deleteVars>>

\* std::cin >> response, and the test of the answer.
Prompt(in) ==
    /\ pc = "prompt"
    /\ stdin' = in
    /\ response' = ExtractToken(in)
    /\ IF Confirmed(response')
       THEN /\ output' = output \cup {"read_input", "starting_deletion"}
            /\ pc' = "delete"
            /\ exitCode' = exitCode
       ELSE /\ output' = output \cup {"read_input", "deletion_skipped"}
            /\ pc' = "done"
            /\ exitCode' = "exit0"
    /\ UNCHANGED <<envVars, scanVars, reportVars, attempted, removed,
                   deleteCount, finalTally>>

\* deleteCount++ follows fs::remove whenever it returns, true or false.
CountAfterRemove(count, outcome) ==
    IF outcome = "error" THEN count ELSE count + 1

\* One iteration of the deletion loop.
DeleteFile ==
    /\ pc = "delete"
    /\ Len(attempted) < Len(filesToDelete)
    /\ LET dupPath == filesToDelete[Len(attempted) + 1] IN
       \E outcome \in RemoveOutcomes :
         /\ attempted' = Append(attempted, dupPath)
         /\ removed' = IF outcome = "removed" THEN removed \cup {dupPath} ELSE removed
         /\ deleteCount' = CountAfterRemove(deleteCount, outcome)
         /\ output' = output \cup {IF outcome = "error" THEN "delete_fail" ELSE "delete_ok"}
    /\ UNCHANGED <<envVars, pc, exitCode, scanVars, reportVars, stdin, response,
                   finalTally>>

\* The loop is over: print the tally and return.
DeleteEnd ==
    /\ pc = "delete"
    /\ Len(attempted) = Len(filesToDelete)
    /\ finalTally' = <<deleteCount>>
    /\ output' = output \cup {"tally"}
    /\ pc' = "done"
    /\ exitCode' = "exit0"
    /\ UNCHANGED <<envVars, scanVars, reportVars, stdin, response, attempted,
                   removed, deleteCount>>

Next ==
    \/ Main
    \/ \E p \in Paths, e \in Entries : ScanEntry(p, e)
    \/ ScanError
    \/ ScanEnd
    \/ ReportGroup
    \/ ReportEnd
    \/ \E in \in Inputs : Prompt(in)
    \/ DeleteFile
    \/ DeleteEnd

Spec == Init /\ [][Next]_vars

\* The same program, with lines of up to MaxLine characters typed at the
\* prompt.
NextLine ==
    \/ Main
    \/ \E p \in Paths, e \in Entries : ScanEntry(p, e)
    \/ ScanError
    \/ ScanEnd
    \/ ReportGroup
    \/ ReportEnd
    \/ \E in \in Lines : Prompt(in)
    \/ DeleteFile
    \/ DeleteEnd

SpecLine == Init /\ [][NextLine]_vars


\* ------------------------------------------------------------- properties

\* The paths calculateFileHash gave a digest for, and the digest of each.
Hashed == {p \in Range(discovered) : IsRegularFile(kind[p]) /\ p \notin hashFailed}
DigestOf(p) == SHA256Hash(content[p])

Grouped == UNION {Range(hashToPaths[h]) : h \in DOMAIN hashToPaths}

\* Position of a path in the order of discovery.
Position(p) == CHOOSE k \in 1..Len(discovered) : discovered[k] = p

\* The member of a group the walk yielded first.
FirstDiscovered(paths) ==
    CHOOSE p \in Range(paths) : \A q \in Range(paths) : Position(p) <= Position(q)

Occurrences(seq, x) == Cardinality({k \in 1..Len(seq) : seq[k] = x})

ReportPhaseOver == "summary" \in output \/ "no_duplicates" \in output

LargeGroups == {h \in DOMAIN hashToPaths : Len(hashToPaths[h]) > 1}

\* C1 (keeper invariant): once the report phase is over, in every group of
\* more than one path the path discovered first is the keeper that was named
\* and is not in filesToDelete, and every other member of the group is in
\* filesToDelete exactly once.
C1_KeeperInvariant ==
    ReportPhaseOver =>
      \A h \in LargeGroups :
        LET paths  == hashToPaths[h]
            keeper == FirstDiscovered(paths) IN
        /\ keeper \in Range(keepers)
        /\ keeper \notin Range(filesToDelete)
        /\ \A p \in Range(paths) \ {keeper} : Occurrences(filesToDelete, p) = 1

\* A group of three has been reported: one keeper, two nominated.
C1_Witness ==
    /\ pc = "prompt"
    /\ \E h \in LargeGroups : Len(hashToPaths[h]) = 3
    /\ Len(filesToDelete) = 2

\* The line typed is the single character Y or y.
SingleY(line) == line = <<"Y">> \/ line = <<"y">>

\* C2 (confirmation gating), as claimed: a removal is attempted only if the
\* line read at the prompt is exactly one character long and that character is
\* Y or y; after any other line nothing is removed; after Y or y every listed
\* duplicate has had its removal and no keeper has.  (Removal is fs::remove
\* being called; whether the call succeeds is the matter of C3.)
C2_ConfirmationGating ==
    /\ attempted # <<>> => SingleY(stdin)
    /\ (pc = "done" /\ "read_input" \in output /\ ~SingleY(stdin)) =>
          (removed = {} /\ attempted = <<>>)
    /\ (pc = "done" /\ "read_input" \in output /\ SingleY(stdin)) =>
          (attempted = filesToDelete /\ Range(keepers) \cap Range(attempted) = {})

\* C3 (partial-failure continuation), as claimed: when the tally is printed
\* every path of the deletion list has had exactly one removal attempt, and the
\* count printed is the number of files a removal attempt removed from disk.
C3_TallyCountsRemovals ==
    "tally" \in output =>
      /\ attempted = filesToDelete
      /\ finalTally = <<Cardinality(removed)>>

\* C4 (no duplicates): when the scan has completed and no digest maps to more
\* than one path, the deletion list is empty, no summary is printed, no input
\* is read and no removal attempted, and the run ends having reported that no
\* duplicates were found.
C4_NoDuplicates ==
    ("scan_complete" \in output /\ LargeGroups = {}) =>
      /\ filesToDelete = <<>>
      /\ "summary" \notin output
      /\ "read_input" \notin output
      /\ pc \notin {"prompt", "delete"}
      /\ attempted = <<>>
      /\ pc = "done" => ("no_duplicates" \in output /\ exitCode = "exit0")

\* Two files of different content were hashed and the run ended with the
\* report that there are no duplicates.
C4_Witness ==
    /\ pc = "done"
    /\ "no_duplicates" \in output
    /\ Cardinality(DOMAIN hashToPaths) = 2

\* main's argument is rejected: wrong count, no such path, or not a directory.
InvalidArguments == argc # 2 \/ rootStatus = "missing" \/ rootStatus = "file"

NothingDone ==
    /\ discovered = <<>>
    /\ "starting_scan" \notin output
    /\ "read_input" \notin output
    /\ attempted = <<>>

\* C5 (validation and exit codes), as claimed: a run with a wrong argument
\* count, a path that does not exist or a path that is not a directory ends
\* with exit code 1 having scanned nothing; every other run ends with exit
\* code 0.
C5_ExitCodes ==
    pc = "done" =>
      IF InvalidArguments
      THEN exitCode = "exit1" /\ NothingDone
      ELSE exitCode = "exit0"

\* C6 (traversal errors are fatal): once a filesystem error of the walk has
\* been reported the run is over, and no group was or is reported, no summary
\* printed, no input read, nothing nominated and no removal attempted.
C6_TraversalErrorFatal ==
    "scan_error" \in output =>
      /\ pc = "done"
      /\ "group" \notin output
      /\ "summary" \notin output
      /\ "no_duplicates" \notin output
      /\ "read_input" \notin output
      /\ keepers = <<>>
      /\ filesToDelete = <<>>
      /\ attempted = <<>>

\* The walk failed after two files of equal content had been grouped.
C6_Witness ==
    /\ "scan_error" \in output
    /\ LargeGroups # {}

\* C7 (only regular files are scanned), as claimed: every path in the digest
\* mapping is itself a regular file, so no symbolic link, directory or other
\* entry is a keeper or in the deletion list.
C7_OnlyRegularFiles ==
    \A p \in Grouped \cup Range(keepers) \cup Range(filesToDelete) :
      kind[p] = "regular"

\* C8 (hash failures): a file whose hash failed is in no group of the mapping,
\* is no keeper, is not in the deletion list and has no removal attempted; and
\* the step in which a hash fails leaves the walk running.
C8_HashFailureExcluded ==
    /\ [](\A p \in hashFailed :
            /\ p \notin Grouped
            /\ p \notin Range(keepers)
            /\ p \notin Range(filesToDelete)
            /\ p \notin Range(attempted))
    /\ [][hashFailed' # hashFailed => (pc = "scan" /\ pc' = "scan")]_vars

\* The first file's hash failed, two later files of the same content were
\* grouped, and the duplicate among them was removed.
C8_Witness ==
    /\ pc = "done"
    /\ 1 \in hashFailed
    /\ \E h \in LargeGroups : h = DigestOf(1)
    /\ removed # {}

RECURSIVE SumOf(_, _)
SumOf(f, S) ==
    IF S = {} THEN 0
    ELSE LET x == CHOOSE y \in S : TRUE IN f[x] + SumOf(f, S \ {x})

NonKeepers == UNION {Range(hashToPaths[h]) \ {hashToPaths[h][1]} : h \in LargeGroups}

\* C9 (size-query failures): once the report phase is over, the deletion list
\* holds exactly the non-keeper members of the groups, measured or not, and
\* the reclaimable total is the sum of the sizes of those whose size query
\* succeeded.
C9_SizeFailureStillNominated ==
    ReportPhaseOver =>
      /\ Range(filesToDelete) = NonKeepers
      /\ Len(filesToDelete) = Cardinality(NonKeepers)
      /\ Len(sizeResult) = Len(filesToDelete)
      /\ LET measured == {k \in 1..Len(sizeResult) : sizeResult[k] # SizeFailed}
             size     == [k \in measured |-> content[filesToDelete[k]]]
         IN  totalDuplicateSize = SumOf(size, measured)

\* Two duplicates were nominated, the size of one measured and of the other
\* not.
C9_Witness ==
    /\ pc = "prompt"
    /\ \E j, k \in 1..Len(sizeResult) :
         sizeResult[j] = SizeFailed /\ sizeResult[k] # SizeFailed
    /\ totalDuplicateSize > 0

\* C10 (content preservation): every path a removal was attempted on has the
\* digest of another hashed path, its group's keeper, on which no removal is
\* attempted; so every digest seen in the scan keeps a hashed path the program
\* did not touch.
C10_ContentPreserved ==
    /\ \A p \in Range(attempted) :
         \E q \in Hashed \ {p} :
           /\ DigestOf(q) = DigestOf(p)
           /\ p \in Hashed
           /\ q \in Range(keepers)
           /\ q \notin Range(attempted)
    /\ \A p \in Hashed :
         \E q \in Hashed : DigestOf(q) = DigestOf(p) /\ q \notin Range(attempted)

\* A run that removed a duplicate and also hashed a file of unique content.
C10_Witness ==
    /\ pc = "done"
    /\ removed # {}
    /\ \E p \in Hashed : \A q \in Hashed \ {p} : DigestOf(q) # DigestOf(p)

=============================================================================
